---- MODULE Spec2Model ----
(***************************************************************************)
(* Model of fetch.py (mobile.de-tools): the incremental crawl over the     *)
(* TinyDB store (perform_search, perform_search_in_pag_num, fetch_details, *)
(* cli_update) and the strict text parsers the detail stage applies.       *)
(*                                                                         *)
(* Text is a sequence of one-character strings.  Four characters have a    *)
(* spelled-out name: "NBSP" is U+00A0, "TAB" is \t, "NL" is \n and "EUR"   *)
(* is the euro sign.  The Python value None is the tuple <<"None">> and an *)
(* int n is <<"int", n>>, so that a parser's two kinds of result can be    *)
(* compared with each other.                                               *)
(***************************************************************************)
EXTENDS Integers, Sequences, FiniteSets, TLC

VARIABLES
  listing,          \* the site: listing[p] is the sequence of hrefs on page p
  db,               \* db_search: the documents, doc_id = position
  pc,               \* where the single worker is
  caller,           \* "none" | "cli_update" | "direct": who made the current call
  skip_search,      \* cli_update's argument
  skip_details,     \* cli_update's argument
  pages_num,        \* perform_search's local
  pag_num,          \* perform_search's loop variable / the argument of a page call
  cars_to_update,   \* fetch_details' snapshot
  car_idx,          \* position of fetch_details' loop in cars_to_update
  result,           \* "none" | "ok" | "error": how the last call ended
  calls,            \* number of calls made by the user so far
  visited,          \* history: <<page, n_adds>> of each page of the current perform_search
  n_completed,      \* history: number of perform_search calls that returned normally
  written,          \* history: doc_ids updated by the current fetch_details, in order
  lastFetch,        \* history: <<>> or <<the latest detail-loop iteration>>
  ran_search,       \* history: perform_search was entered in the current call
  ran_details,      \* history: fetch_details was entered in the current call
  owed,             \* history: what the perform_search calls that were aborted after a
                    \*   page would have made the store hold, until one returns
  left_pending,     \* history: the documents the last fetch_details left pending when
                    \*   it ended in an error, until the next one ends
  sample,           \* the text handed to the parsers (the parsers' own specification)
  outcome           \* what the parsers returned for it

vars == << listing, db, pc, caller, skip_search, skip_details, pages_num, pag_num,
           cars_to_update, car_idx, result, calls, visited, n_completed, written,
           lastFetch, ran_search, ran_details, owed, left_pending, sample, outcome >>

(***************************************************************************)
(* Bounds                                                                  *)
(***************************************************************************)
\* how many calls (cli_update, or one of the three functions) the user makes
MaxCalls == 4

\* digit groups of a numeric token handed to the parsers
MaxGroups == 3

\* digits of a numeric token: Python's int has no width, the tokens are kept to
\* values the model's integers hold too
MaxDigits == 8

\* characters of a text handed to _parse_int
MaxCountLen == 4

\* characters of a link handed to __clean_car_url
MaxUrlLen == 4

(***************************************************************************)
(* Text                                                                    *)
(***************************************************************************)
None == <<"None">>

Some(n) == <<"int", n>>

Digits == {"0", "1", "2", "3", "4", "5", "6", "7", "8", "9"}

\* what \s matches among the modelled characters (U+00A0 is whitespace to str patterns)
Whitespace == {" ", "NBSP", "TAB", "NL"}

\* what [ \xa0] matches
PriceSep == {" ", "NBSP"}

DigitVal(c) ==
  CASE c = "0" -> 0 [] c = "1" -> 1 [] c = "2" -> 2 [] c = "3" -> 3 [] c = "4" -> 4
    [] c = "5" -> 5 [] c = "6" -> 6 [] c = "7" -> 7 [] c = "8" -> 8 [] c = "9" -> 9

\* re.IGNORECASE on the letters the unit patterns name
Lower(c) ==
  CASE c = "K" -> "k" [] c = "M" -> "m" [] c = "W" -> "w" [] c = "I" -> "i"
    [] c = "N" -> "n" [] OTHER -> c

Tail_from(s, i) == SubSeq(s, i, Len(s))

\* length of the longest prefix of s whose characters are all in set
RECURSIVE RunLen(_, _)
RunLen(s, set) ==
  IF s = <<>> \/ Head(s) \notin set THEN 0 ELSE 1 + RunLen(Tail(s), set)

AllIn(s, set) == \A i \in 1..Len(s) : s[i] \in set

\* str.replace('.', '')
RECURSIVE RemoveDots(_)
RemoveDots(s) ==
  IF s = <<>> THEN <<>>
  ELSE IF Head(s) = "." THEN RemoveDots(Tail(s))
  ELSE <<Head(s)>> \o RemoveDots(Tail(s))

\* int() of a digit string
RECURSIVE IntOf(_)
IntOf(s) ==
  IF s = <<>> THEN 0 ELSE IntOf(SubSeq(s, 1, Len(s) - 1)) * 10 + DigitVal(s[Len(s)])

\* mutant of IsGrouped: \d{1,3}(?:\.\d{1,3})*, a later group may be short
IsGrouped_short_groups(t) ==
  /\ t # <<>>
  /\ AllIn(t, Digits \cup {"."})
  /\ t[1] # "." /\ t[Len(t)] # "."
  /\ \A i \in 1..(Len(t) - 1) : ~(t[i] = "." /\ t[i + 1] = ".")
  /\ \A i \in 1..(Len(t) - 3) : \E j \in i..(i + 3) : t[j] = "."

\* \d{1,3}(?:\.\d{3})* matches the whole of t
IsGrouped(t) ==
  LET k == RunLen(t, Digits)
      rest == Tail_from(t, k + 1)
  IN  /\ k \in 1..3
      /\ Len(rest) % 4 = 0
      /\ \A i \in 1..Len(rest) :
            IF i % 4 = 1 THEN rest[i] = "." ELSE rest[i] \in Digits

\* ^\s*(\d{1,3}(?:\.\d{3})*) followed by a separator: the token the group can
\* capture and what is left after it.  The group is followed by a character
\* that is neither a digit nor a dot, so the token is the longest run of both.
NumberSplit(s) ==
  LET t == Tail_from(s, RunLen(s, Whitespace) + 1)
      n == RunLen(t, Digits \cup {"."})
  IN  [num |-> SubSeq(t, 1, n), rest |-> Tail_from(t, n + 1)]

\* sep+ unit, case-insensitively, at the start of rest: what follows it, or
\* <<"nomatch">>
AfterUnit(rest, sep, unit) ==
  LET k == RunLen(rest, sep)
      u == Tail_from(rest, k + 1)
  IN  IF /\ k >= 1
         /\ Len(u) >= Len(unit)
         /\ \A i \in 1..Len(unit) : Lower(u[i]) = Lower(unit[i])
      THEN <<"match", Tail_from(u, Len(unit) + 1)>>
      ELSE <<"nomatch">>

\* the value of the captured group: num_str.replace('.', '') then int()
GroupValue(num) == Some(IntOf(RemoveDots(num)))

_parse_price_eur(s) ==
  LET sp == NumberSplit(s)
      a == AfterUnit(sp.rest, PriceSep, <<"EUR">>)
  IN  IF IsGrouped(sp.num) /\ a[1] = "match" /\ AllIn(a[2], Whitespace)
      THEN GroupValue(sp.num) ELSE None

_parse_km(s) ==
  LET sp == NumberSplit(s)
      a == AfterUnit(sp.rest, Whitespace, <<"k", "m">>)
  IN  IF IsGrouped(sp.num) /\ a[1] = "match" /\ AllIn(a[2], Whitespace)
      THEN GroupValue(sp.num) ELSE None

\* (?:\s*\(.*?\))?\s*$ matches the whole of t: only whitespace, or whitespace,
\* "(", any characters but a newline, ")" and whitespace
KwTail(t) ==
  LET u == Tail_from(t, RunLen(t, Whitespace) + 1)
      closers == {j \in 2..Len(u) : u[j] = ")" /\ AllIn(Tail_from(u, j + 1), Whitespace)}
  IN  \/ u = <<>>
      \/ /\ u[1] = "("
         /\ \E j \in closers : \A i \in 2..(j - 1) : u[i] # "NL"

_parse_kw(s) ==
  LET sp == NumberSplit(s)
      a == AfterUnit(sp.rest, Whitespace, <<"k", "w">>)
  IN  IF IsGrouped(sp.num) /\ a[1] = "match" /\ KwTail(a[2])
      THEN GroupValue(sp.num) ELSE None

_parse_minutes(s) ==
  LET sp == NumberSplit(s)
      a == AfterUnit(sp.rest, Whitespace, <<"m", "i", "n">>)
      t == IF a[1] = "match"
           THEN (IF a[2] # <<>> /\ a[2][1] = "." THEN Tail(a[2]) ELSE a[2])
           ELSE <<>>
  IN  IF IsGrouped(sp.num) /\ a[1] = "match" /\ AllIn(t, Whitespace)
      THEN GroupValue(sp.num) ELSE None

\* mutant of _parse_int: without the leading-zero test
_parse_int_keeps_zeros(s) ==
  LET t == Tail_from(s, RunLen(s, Whitespace) + 1)
      n == RunLen(t, Digits)
      num_str == SubSeq(t, 1, n)
  IN  IF n >= 1 /\ AllIn(Tail_from(t, n + 1), Whitespace)
      THEN Some(IntOf(num_str))
      ELSE None

_parse_int(s) ==
  LET t == Tail_from(s, RunLen(s, Whitespace) + 1)
      n == RunLen(t, Digits)
      num_str == SubSeq(t, 1, n)
  IN  IF n >= 1 /\ AllIn(Tail_from(t, n + 1), Whitespace)
      THEN (IF Len(num_str) > 1 /\ num_str[1] = "0" THEN None ELSE Some(IntOf(num_str)))
      ELSE None

Range_of(s) == {s[i] : i \in 1..Len(s)}

\* str.strip()
Strip(s) ==
  LET a == RunLen(s, Whitespace)
      t == Tail_from(s, a + 1)
      b == RunLen([i \in 1..Len(t) |-> t[Len(t) + 1 - i]], Whitespace)
  IN  SubSeq(t, 1, Len(t) - b)

(***************************************************************************)
(* The record store (TinyDB) and the discovery stage                       *)
(***************************************************************************)
\* url.split('&')[0]
\* mutant of __clean_car_url: url.rsplit('&', 1)[0], cut at the last "&"
__clean_car_url_rsplit(url) ==
  LET rev == [i \in 1..Len(url) |-> url[Len(url) + 1 - i]]
      b == RunLen(rev, {c \in Range_of(url) : c # "&"})
  IN  IF b = Len(url) THEN url ELSE SubSeq(url, 1, Len(url) - b - 1)

__clean_car_url(url) == SubSeq(url, 1, RunLen(url, {c \in Range_of(url) : c # "&"}))

\* mutant of db_get: the lookup never finds the document
db_get_never(d, car_url) == 0

\* db_search.get(Result.URL == car_url): the doc_id of the first document
\* with that URL, 0 for None
db_get(d, car_url) ==
  LET hits == {i \in 1..Len(d) : d[i]["URL"] = car_url}
  IN  IF hits = {} THEN 0 ELSE CHOOSE i \in hits : \A j \in hits : i <= j

\* mutant of new_record: the document is inserted as already completed
new_record_done(car_url) == ("URL" :> car_url) @@ ("needs_details" :> FALSE)

\* the document perform_search_in_pag_num inserts
new_record(car_url) == ("URL" :> car_url) @@ ("needs_details" :> TRUE)

\* db_search.insert(doc)
db_insert(d, doc) == Append(d, doc)

\* db_search.update(fields, doc_ids=[doc_id]): dict.update on that document
\* mutant of db_update: doc_ids is ignored, every document is updated
db_update_all(d, fields, doc_id) ==
  [i \in 1..Len(d) |-> fields @@ d[i]]

db_update(d, fields, doc_id) ==
  [i \in 1..Len(d) |-> IF i = doc_id THEN fields @@ d[i] ELSE d[i]]

\* mutant of page_link: a link whose document exists marks it pending again
page_link_remark(st, href) ==
  LET car_url == __clean_car_url(href)
      doc_id == db_get(st.db, car_url)
  IN  IF doc_id = 0
      THEN [db |-> db_insert(st.db, new_record(car_url)),
            n_adds |-> st.n_adds + 1, n_skips |-> st.n_skips]
      ELSE [db |-> db_update(st.db, "needs_details" :> TRUE, doc_id),
            n_adds |-> st.n_adds, n_skips |-> st.n_skips + 1]

\* mutant of page_link: every link is inserted, the store is not asked
page_link_always_adds(st, href) ==
  [db |-> db_insert(st.db, new_record(__clean_car_url(href))),
   n_adds |-> st.n_adds + 1, n_skips |-> st.n_skips]

\* one iteration of the loop over the page's links, on st = [db, n_adds, n_skips]
page_link(st, href) ==
  LET car_url == __clean_car_url(href)
  IN  IF db_get(st.db, car_url) = 0
      THEN [db |-> db_insert(st.db, new_record(car_url)),
            n_adds |-> st.n_adds + 1, n_skips |-> st.n_skips]
      ELSE [db |-> st.db, n_adds |-> st.n_adds, n_skips |-> st.n_skips + 1]

\* mutant of page_links: the loop is left at the first link whose document exists
RECURSIVE page_links_until_known(_, _)
page_links_until_known(st, links) ==
  IF links = <<>> \/ db_get(st.db, __clean_car_url(Head(links))) # 0 THEN st
  ELSE page_links_until_known(page_link(st, Head(links)), Tail(links))

RECURSIVE page_links(_, _)
page_links(st, links) ==
  IF links = <<>> THEN st ELSE page_links(page_link(st, Head(links)), Tail(links))

\* mutant of cont: the page always asks for the next one
cont_always(n_adds) == TRUE

\* the return value of perform_search_in_pag_num
cont(n_adds) == n_adds >= 1

\* perform_search_in_pag_num on store d and the links of the loaded page
perform_search_in_pag_num(d, links) ==
  LET st == page_links([db |-> d, n_adds |-> 0, n_skips |-> 0], links)
  IN  [db |-> st.db, n_adds |-> st.n_adds, cont |-> cont(st.n_adds)]

(***************************************************************************)
(* The detail stage                                                        *)
(***************************************************************************)
\* mutant of search_needs_details: the query returns every document
RECURSIVE search_all(_, _)
search_all(d, from) ==
  IF from > Len(d) THEN <<>>
  ELSE <<[doc_id |-> from, doc |-> d[from]]>> \o search_all(d, from + 1)

\* list(db_search.search(Result.needs_details == True)): the pending
\* documents, in doc_id order, each with its doc_id
RECURSIVE search_needs_details(_, _)
search_needs_details(d, from) ==
  IF from > Len(d) THEN <<>>
  ELSE (IF d[from]["needs_details"] = TRUE
        THEN <<[doc_id |-> from, doc |-> d[from]]>> ELSE <<>>)
       \o search_needs_details(d, from + 1)

\* mutant of raises: the price block is guarded the way the subtitle is
raises_price_guarded(page) ==
  \/ "title" \notin page.present
  \/ "fairness" \notin page.present

\* mutant of raises: only the title is dereferenced without a guard
raises_title_only(page) == "title" \notin page.present

\* the elements fetch_details dereferences without a guard: a .get_attribute
\* on the None that get_obj gives for a missing one raises
raises(page) ==
  \/ "title" \notin page.present
  \/ "price" \notin page.present
  \/ "fairness" \notin page.present

\* mutant of car_data: a price that did not parse is left out of the dict
car_data_price_omitted(page) ==
  ("title" :> page.title)
  @@ ("subtitle" :> (IF "subtitle" \in page.present THEN page.subtitle ELSE <<>>))
  @@ (IF _parse_price_eur(page.price) = None
      THEN <<>> ELSE ("price" :> _parse_price_eur(page.price)))
  @@ ("price fairness" :> page.fairness)

\* the dict built from the elements' texts
car_data(page) ==
  ("title" :> page.title)
  @@ ("subtitle" :> (IF "subtitle" \in page.present THEN page.subtitle ELSE <<>>))
  @@ ("price" :> _parse_price_eur(page.price))
  @@ ("price fairness" :> page.fairness)

\* info_pairs_raw: label -> value, both stripped, a later pair overriding
RECURSIVE info_pairs_raw(_)
info_pairs_raw(features) ==
  IF features = <<>> THEN <<>>
  ELSE LET f == features[Len(features)]
       IN  (f[1] :> Strip(f[2])) @@ info_pairs_raw(SubSeq(features, 1, Len(features) - 1))

\* raw.get(label) is truthy
has_value(raw, label) == label \in DOMAIN raw /\ raw[label] # <<>>

\* mutant of info_pair: a value that did not parse is left out
info_pair_omits_none(raw, label, key, parsed) ==
  IF has_value(raw, label) /\ parsed # None THEN (key :> parsed) ELSE <<>>

\* one "if (val := raw.get(label)): info_pairs[key] = parsed" statement
info_pair(raw, label, key, parsed) ==
  IF has_value(raw, label) THEN (key :> parsed) ELSE <<>>

\* the parser fetch_details applies to the value of a label
normalize(label, val) ==
  CASE label = "Kilometraje" -> _parse_km(val)
    [] label = "Potencia" -> _parse_kw(val)
    [] label = "Tiempo de carga rapida" -> _parse_minutes(val)
    [] label = "Autonomia (WLTP)" -> _parse_km(val)
    [] label = "Propietarios anteriores" -> _parse_int(val)

\* the key the parsed value of a label is stored under
stored_key(label) ==
  CASE label = "Kilometraje" -> "Kilometraje"
    [] label = "Potencia" -> "Potencia (Kw)"
    [] label = "Tiempo de carga rapida" -> "Tiempo de carga rapida (mins)"
    [] label = "Autonomia (WLTP)" -> "Autonomia WLTP (Km)"
    [] label = "Propietarios anteriores" -> "Propietarios anteriores"

MappedLabels ==
  {"Kilometraje", "Potencia", "Tiempo de carga rapida", "Autonomia (WLTP)",
   "Propietarios anteriores"}

parsed_pair(raw, label) ==
  info_pair(raw, label, stored_key(label),
            IF label \in DOMAIN raw THEN normalize(label, raw[label]) ELSE None)

\* info_pairs
info_pairs(raw) ==
  parsed_pair(raw, "Kilometraje")
  @@ parsed_pair(raw, "Potencia")
  @@ info_pair(raw, "Potencia", "Potentia detalle",
               IF "Potencia" \in DOMAIN raw THEN raw["Potencia"] ELSE <<>>)
  @@ parsed_pair(raw, "Tiempo de carga rapida")
  @@ parsed_pair(raw, "Autonomia (WLTP)")
  @@ parsed_pair(raw, "Propietarios anteriores")

\* the fields fetch_details writes for a page that did not raise:
\* car_data | info_pairs, then needs_details = False
updated_fields(page) ==
  ("needs_details" :> FALSE) @@ info_pairs(info_pairs_raw(page.features)) @@ car_data(page)

(***************************************************************************)
(* The site: listing pages and detail pages                                *)
(***************************************************************************)
\* hrefs of three items; "s" and "r" stand for the parameters after the id
L1 == <<"1">>

L1s == <<"1", "&", "s", "&", "r">>

L1r == <<"1", "&", "r">>

L2s == <<"2", "&", "s">>

L3s == <<"3", "&", "s">>

\* the listings the crawl is run against, each a sequence of pages
Listings ==
  { << <<L1s, L2s>>, <<L1r, L3s>>, <<L1s, L2s>>, <<L3s>> >>,   \* {A,B} {A,C} {A,B} and a page 4
    << <<L1s, L1r, L1s>> >>,                                   \* one item listed three times
    << <<L1, L2s>>, <<L3s>> >>,                                \* every page has a new item
    << <<>>, <<L1>> >>,                                        \* an empty first page
    << <<L1>>, <<L1r>>, <<L2s>> >>,                            \* a new item behind a page of old ones
    << <<L2s>>, <<L2s, L1>>, <<L3s, L1r>> >> }                 \* one new item on every page

T_title == <<"T">>

T_sub == <<"S">>

T_fair == <<"F">>

T_1000eur == <<"1", ".", "0", "0", "0", " ", "EUR">>

T_4954eur == <<"4", "9", ".", "5", "4", " ", "EUR">>

T_8000km == <<"8", ".", "0", "0", "0", " ", "k", "m">>

T_8comma000km == <<"8", ",", "0", "0", "0", " ", "k", "m">>

T_150kw == <<"1", "5", "0", " ", "k", "W", " ", "(", "2", "0", "4", " ", "c", "v", ")">>

T_350kw_nospace == <<"3", "5", "0", "k", "w">>

T_18min == <<" ", "1", "8", " ", "M", "i", "n", ".">>

T_01 == <<"0", "1">>

AllElements == {"title", "subtitle", "price", "fairness"}

\* a detail page: the elements it has, their texts, and its features panel
Page(present, price, features) ==
  [present |-> present,
   title |-> IF "title" \in present THEN T_title ELSE <<>>,
   subtitle |-> IF "subtitle" \in present THEN T_sub ELSE <<>>,
   price |-> IF "price" \in present THEN price ELSE <<>>,
   fairness |-> IF "fairness" \in present THEN T_fair ELSE <<>>,
   features |-> features]

F_good ==
  << <<"Kilometraje", T_8000km>>, <<"Potencia", T_150kw>>, <<"Color", T_title>> >>

F_bad ==
  << <<"Kilometraje", T_8comma000km>>, <<"Potencia", T_350kw_nospace>>,
     <<"Tiempo de carga rapida", T_18min>>, <<"Autonomia (WLTP)", <<" ">> >>,
     <<"Propietarios anteriores", T_01>> >>

\* the detail pages an item's URL may serve
DetailPages ==
  { Page(AllElements, T_1000eur, F_good),
    Page(AllElements, T_4954eur, F_bad),
    Page(AllElements \ {"subtitle"}, T_1000eur, <<>>),
    Page(AllElements \ {"fairness"}, T_1000eur, F_good),
    Page(AllElements \ {"title"}, T_1000eur, F_good),
    Page(AllElements \ {"price"}, T_1000eur, F_good) }

(***************************************************************************)
(* The state machine                                                       *)
(***************************************************************************)
\* no text has been handed to a parser, none has returned
NoSample ==
  [family |-> "none", pre |-> <<>>, groups |-> <<>>, seps |-> <<>>, gap |-> <<>>,
   unit |-> <<>>, post |-> <<>>]

NoOutcome == [fn |-> "none", value |-> None]

Init ==
  /\ listing \in Listings
  /\ db = <<>>
  /\ pc = "idle"
  /\ caller = "none"
  /\ skip_search = FALSE
  /\ skip_details = FALSE
  /\ pages_num = 0
  /\ pag_num = 0
  /\ cars_to_update = <<>>
  /\ car_idx = 0
  /\ result = "none"
  /\ calls = 0
  /\ visited = <<>>
  /\ n_completed = 0
  /\ written = <<>>
  /\ lastFetch = <<>>
  /\ ran_search = FALSE
  /\ ran_details = FALSE
  /\ owed = {}
  /\ left_pending = {}
  /\ sample = NoSample
  /\ outcome = NoOutcome

\* mutant of runs_details: the details run whatever skip_details says
runs_details_always(sd) == TRUE

\* "if not skip_search:" and "if not skip_details:"
runs_search(ss) == ~ss

runs_details(sd) == ~sd

\* a call from the user starts with fresh locals and histories
Enter(who, ss, sd, to) ==
  /\ pc = "idle"
  /\ calls < MaxCalls
  /\ calls' = calls + 1
  /\ caller' = who
  /\ skip_search' = ss
  /\ skip_details' = sd
  /\ pc' = to
  /\ result' = IF to = "idle" THEN "ok" ELSE "none"
  /\ pages_num' = 0
  /\ cars_to_update' = <<>>
  /\ car_idx' = 0
  /\ visited' = <<>>
  /\ written' = <<>>
  /\ lastFetch' = <<>>
  /\ ran_search' = FALSE
  /\ ran_details' = FALSE
  /\ UNCHANGED <<listing, db, n_completed, owed, left_pending, sample, outcome>>

\* cli_update(skip_search, skip_details) up to the first phase it runs
cli_update ==
  \E ss \in BOOLEAN, sd \in BOOLEAN :
    /\ Enter("cli_update", ss, sd,
             IF runs_search(ss) THEN "perform_search"
             ELSE IF runs_details(sd) THEN "fetch_details" ELSE "idle")
    /\ pag_num' = 0

\* the user calls perform_search() itself
call_perform_search ==
  /\ Enter("direct", FALSE, FALSE, "perform_search")
  /\ pag_num' = 0

\* the user calls perform_search_in_pag_num(p) itself
call_perform_search_in_pag_num ==
  \E p \in 1..Len(listing) :
    /\ Enter("direct", FALSE, FALSE, "page")
    /\ pag_num' = p

\* the user calls fetch_details() itself
call_fetch_details ==
  /\ Enter("direct", FALSE, FALSE, "fetch_details")
  /\ pag_num' = 0

Pending(d) == {i \in 1..Len(d) : d[i]["needs_details"] = TRUE}

URLs(d) == {d[i]["URL"] : i \in 1..Len(d)}

\* the store after the rest of perform_search's loop, from page p on, when
\* nothing fails
RECURSIVE run_from(_, _, _)
run_from(d, pages, p) ==
  IF p > Len(pages) THEN d
  ELSE LET r == perform_search_in_pag_num(d, pages[p])
       IN  IF r.cont THEN run_from(r.db, pages, p + 1) ELSE r.db

\* an exception leaves every frame: the call ends
Raise ==
  /\ pc' = "idle"
  /\ result' = "error"

\* perform_search has returned: cli_update goes on to the details, a direct call ends
SearchReturns ==
  /\ n_completed' = n_completed + 1
  /\ owed' = {}
  /\ IF caller = "cli_update" /\ runs_details(skip_details)
     THEN pc' = "fetch_details" /\ result' = result
     ELSE pc' = "idle" /\ result' = "ok"

\* perform_search up to its loop: load the search, read the pagination
perform_search ==
  /\ pc = "perform_search"
  /\ ran_search' = TRUE
  /\ \/ /\ pages_num' = Len(listing)
        /\ pag_num' = 1
        /\ pc' = "search_loop"
        /\ result' = result
     \/ /\ Raise
        /\ UNCHANGED <<pages_num, pag_num>>
  /\ UNCHANGED <<listing, db, caller, skip_search, skip_details, cars_to_update, car_idx,
                 calls, visited, n_completed, written, lastFetch, ran_details, owed,
                 left_pending, sample, outcome>>

\* one turn of "for pag_num in range(1, pages_num + 1)"
search_loop ==
  /\ pc = "search_loop"
  /\ IF pag_num > pages_num
     THEN /\ SearchReturns
          /\ UNCHANGED <<db, pag_num, visited>>
     ELSE \/ /\ Raise
             /\ owed' = IF visited # <<>>
                        THEN owed \cup URLs(run_from(db, listing, pag_num))
                        ELSE owed
             /\ UNCHANGED <<db, pag_num, visited, n_completed>>
          \/ LET r == perform_search_in_pag_num(db, listing[pag_num])
             IN  /\ db' = r.db
                 /\ visited' = Append(visited, [page |-> pag_num, n_adds |-> r.n_adds])
                 /\ IF r.cont
                    THEN /\ pag_num' = pag_num + 1
                         /\ UNCHANGED <<pc, result, n_completed, owed>>
                    ELSE /\ SearchReturns
                         /\ UNCHANGED pag_num
  /\ UNCHANGED <<listing, caller, skip_search, skip_details, pages_num, cars_to_update,
                 car_idx, calls, written, lastFetch, ran_search, ran_details, left_pending,
                 sample, outcome>>

\* perform_search_in_pag_num(pag_num) called by the user
page ==
  /\ pc = "page"
  /\ \/ /\ Raise
        /\ UNCHANGED db
     \/ /\ db' = perform_search_in_pag_num(db, listing[pag_num]).db
        /\ pc' = "idle"
        /\ result' = "ok"
  /\ UNCHANGED <<listing, caller, skip_search, skip_details, pages_num, pag_num,
                 cars_to_update, car_idx, calls, visited, n_completed, written, lastFetch,
                 ran_search, ran_details, owed, left_pending, sample, outcome>>

\* fetch_details up to its loop: the snapshot of the pending documents
fetch_details ==
  /\ pc = "fetch_details"
  /\ ran_details' = TRUE
  /\ cars_to_update' = search_needs_details(db, 1)
  /\ car_idx' = 1
  /\ pc' = "fetch_loop"
  /\ UNCHANGED <<listing, db, caller, skip_search, skip_details, pages_num, pag_num, result,
                 calls, visited, n_completed, written, lastFetch, ran_search, owed,
                 left_pending, sample, outcome>>

\* one turn of "for car_entry in cars_to_update"
fetch_loop ==
  /\ pc = "fetch_loop"
  /\ IF car_idx > Len(cars_to_update)
     THEN /\ pc' = "idle"
          /\ result' = "ok"
          /\ left_pending' = {}
          /\ UNCHANGED <<db, car_idx, written, lastFetch>>
     ELSE LET e == cars_to_update[car_idx]
          IN  \/ /\ lastFetch' = <<[idx |-> car_idx, doc_id |-> e.doc_id, loaded |-> FALSE]>>
                 /\ Raise
                 /\ left_pending' = Pending(db)
                 /\ UNCHANGED <<db, car_idx, written>>
              \/ \E pg \in DetailPages :
                   /\ lastFetch' = <<[idx |-> car_idx, doc_id |-> e.doc_id, loaded |-> TRUE,
                                      page |-> pg]>>
                   /\ IF raises(pg)
                      THEN /\ Raise
                           /\ left_pending' = Pending(db)
                           /\ UNCHANGED <<db, car_idx, written>>
                      ELSE /\ db' = db_update(db, updated_fields(pg), e.doc_id)
                           /\ written' = Append(written, e.doc_id)
                           /\ car_idx' = car_idx + 1
                           /\ UNCHANGED <<pc, result, left_pending>>
  /\ UNCHANGED <<listing, caller, skip_search, skip_details, pages_num, pag_num,
                 cars_to_update, calls, visited, n_completed, ran_search, ran_details,
                 owed, sample, outcome>>

Next ==
  \/ cli_update
  \/ call_perform_search
  \/ call_perform_search_in_pag_num
  \/ call_fetch_details
  \/ perform_search
  \/ search_loop
  \/ page
  \/ fetch_details
  \/ fetch_loop

Spec == Init /\ [][Next]_vars

(***************************************************************************)
(* The parsers and __clean_car_url on their own: a text is assembled from  *)
(* parts, and each function is applied to it                               *)
(***************************************************************************)

\* the groups of a numeric token, joined by the separators between them
RECURSIVE Join(_, _)
Join(groups, seps) ==
  IF groups = <<>> THEN <<>>
  ELSE IF Len(groups) = 1 THEN groups[1]
  ELSE Join(SubSeq(groups, 1, Len(groups) - 1), SubSeq(seps, 1, Len(seps) - 1))
         \o <<seps[Len(seps)]>> \o groups[Len(groups)]

\* the argument s: what comes before the number, the number, what separates
\* it from the unit, the unit, and what follows
TextOf(smp) == smp.pre \o Join(smp.groups, smp.seps) \o smp.gap \o smp.unit \o smp.post

MakeSample(family, pre, groups, seps, gap, unit, post) ==
  [family |-> family, pre |-> pre, groups |-> groups, seps |-> seps, gap |-> gap,
   unit |-> unit, post |-> post]

U_eur == <<"EUR">>

U_km == <<"k", "m">>

U_kW == <<"k", "W">>

U_min == <<"m", "i", "n">>

RECURSIVE DigitCount(_)
DigitCount(groups) ==
  IF groups = <<>> THEN 0 ELSE Len(Head(groups)) + DigitCount(Tail(groups))

\* the digit groups tokens are made of: none, one to four digits, zeros
GroupTexts ==
  { <<>>, <<"7">>, <<"1", "2">>, <<"1", "2", "3">>, <<"1", "2", "3", "4">>,
    <<"0", "0", "0">>, <<"0", "5">> }

GroupSeps == {".", ","}

\* "<token> <unit>" for every token of up to MaxGroups groups and the unit of
\* each of the four parsers of grouped numbers
DrawToken ==
  \E k \in 1..MaxGroups :
    \E g \in [1..k -> GroupTexts], sp \in [1..(k - 1) -> GroupSeps],
       u \in {U_eur, U_km, U_kW, U_min} :
      /\ DigitCount(g) <= MaxDigits
      /\ sample = MakeSample("token", <<>>, g, sp, <<" ">>, u, <<>>)

FramePres == { <<>>, <<" ">>, <<"NL", " ">>, <<"x">>, <<"-">>, <<"x", " ">> }

FrameGaps == { <<>>, <<" ">>, <<"NBSP">>, <<" ", " ">> }

FrameUnits ==
  { <<>>, U_eur, U_km, <<"K", "M">>, U_kW, <<"k", "w">>, U_min, <<"M", "i", "n">>,
    <<"h", "p">>, <<"$">> }

FramePosts ==
  { <<>>, <<" ">>, <<".">>, <<".", " ">>, <<".", ".">>, <<".", "x">>, <<"x">>,
    <<" ", "x">>, <<"s">>,
    <<"(", "a", ")">>, <<" ", "(", "a", ")", " ">>, <<"(", ")">>,
    <<"(", "a", ")", "b">>, <<"(", "a", ")", " ", "x">>,
    <<"(", "a", ")", " ", "b", ")">>, <<"(", "a", ")", "(", "b", ")">>,
    <<"(", "a">>, <<"a", ")">> }

\* a well-grouped number inside every combination of surroundings
FrameNumbers == { << <<"7">> >>, << <<"7">>, <<"0", "0", "0">> >> }

DrawFrame ==
  \E pre \in FramePres, g \in FrameNumbers, gap \in FrameGaps, u \in FrameUnits,
     post \in FramePosts :
    sample = MakeSample("frame", pre, g, [k \in 1..(Len(g) - 1) |-> "."], gap, u, post)

CountChars == {"0", "1", " ", ".", "-", "k"}

\* every text of up to MaxCountLen characters
DrawCount ==
  \E n \in 0..MaxCountLen :
    \E txt \in [1..n -> CountChars] :
      sample = MakeSample("count", <<>>, <<txt>>, <<>>, <<>>, <<>>, <<>>)

UrlChars == {"a", "b", "&"}

\* every link of up to MaxUrlLen characters
UrlTexts == UNION { [1..n -> UrlChars] : n \in 0..MaxUrlLen }

DrawUrl ==
  \E url \in UrlTexts :
    sample = MakeSample("url", <<>>, <<url>>, <<>>, <<>>, <<>>, <<>>)

InitParse ==
  /\ DrawToken \/ DrawFrame \/ DrawCount \/ DrawUrl
  /\ outcome = NoOutcome
  /\ listing = <<>>
  /\ db = <<>>
  /\ pc = "parse"
  /\ caller = "none"
  /\ skip_search = FALSE
  /\ skip_details = FALSE
  /\ pages_num = 0
  /\ pag_num = 0
  /\ cars_to_update = <<>>
  /\ car_idx = 0
  /\ result = "none"
  /\ calls = 0
  /\ visited = <<>>
  /\ n_completed = 0
  /\ written = <<>>
  /\ lastFetch = <<>>
  /\ ran_search = FALSE
  /\ ran_details = FALSE
  /\ owed = {}
  /\ left_pending = {}

\* a function is called on the text and returns
Returns(fn, value) ==
  /\ pc = "parse"
  /\ outcome' = [fn |-> fn, value |-> value]
  /\ UNCHANGED <<listing, db, pc, caller, skip_search, skip_details, pages_num, pag_num,
                 cars_to_update, car_idx, result, calls, visited, n_completed, written,
                 lastFetch, ran_search, ran_details, owed, left_pending, sample>>

call_parse_price_eur == Returns("_parse_price_eur", _parse_price_eur(TextOf(sample)))

call_parse_km == Returns("_parse_km", _parse_km(TextOf(sample)))

call_parse_kw == Returns("_parse_kw", _parse_kw(TextOf(sample)))

call_parse_minutes == Returns("_parse_minutes", _parse_minutes(TextOf(sample)))

call_parse_int == Returns("_parse_int", _parse_int(TextOf(sample)))

call_clean_car_url == Returns("__clean_car_url", __clean_car_url(TextOf(sample)))

NextParse ==
  \/ call_parse_price_eur
  \/ call_parse_km
  \/ call_parse_kw
  \/ call_parse_minutes
  \/ call_parse_int
  \/ call_clean_car_url

SpecParse == InitParse /\ [][NextParse]_vars

(***************************************************************************)
(* Properties                                                              *)
(***************************************************************************)
\* the identities a listing page names
PageIdentities(links) == {__clean_car_url(links[i]) : i \in 1..Len(links)}

\* the page names one identity by two links: the same one twice, or two that
\* differ after the first "&"
ListsIdentityTwice(links) ==
  \E a, b \in 1..Len(links) : a # b /\ __clean_car_url(links[a]) = __clean_car_url(links[b])

ListsIdentityByTwoLinks(links) ==
  \E a, b \in 1..Len(links) :
    links[a] # links[b] /\ __clean_car_url(links[a]) = __clean_car_url(links[b])

LastVisited == visited[Len(visited)]

InSearch == pc \in {"perform_search", "search_loop"}

InPage == pc \in {"search_loop", "page"}

InDetails == pc \in {"fetch_details", "fetch_loop"}

\* C1: whatever calls were made on the store, no two documents of it have the
\* same URL.
C1_IdentityUnique ==
  \A i, j \in 1..Len(db) : i # j => db[i]["URL"] # db[j]["URL"]

\* C1's case: a crawled page named one item by the same link twice and by links
\* that differ after the first "&", the store holds several documents, and a
\* detail run has completed one.
C1_Witness ==
  /\ visited # <<>>
  /\ ListsIdentityTwice(listing[LastVisited.page])
  /\ ListsIdentityByTwoLinks(listing[LastVisited.page])
  /\ Len(db) >= 1
  /\ calls >= 2
  /\ \E i \in 1..Len(db) : db[i]["needs_details"] = FALSE

\* C2: in every step, a document that is completed (needs_details false) is
\* still the same document and still completed afterwards.
C2_NeverPendingAgain ==
  [][\A i \in 1..Len(db) :
       db[i]["needs_details"] = FALSE
         => /\ i <= Len(db')
            /\ db'[i]["URL"] = db[i]["URL"]
            /\ db'[i]["needs_details"] = FALSE]_vars

\* C2's case: a discovery run has just crawled a page that lists the identity
\* of a document completed by an earlier detail run.
C2_Witness ==
  /\ pc = "search_loop"
  /\ visited # <<>>
  /\ \E i \in 1..Len(db) :
       /\ db[i]["needs_details"] = FALSE
       /\ db[i]["URL"] \in PageIdentities(listing[LastVisited.page])

\* C3: the pages perform_search has crawled are 1, 2, ... in this order, none
\* beyond the page count read at the start; every crawled page but the last
\* inserted a document, the loop is not left standing after a page that
\* inserted none, and a run that returned stopped for one of the two reasons:
\* its last page inserted nothing, or it was page N.
C3_PagesInOrderUntilNoNew ==
  /\ \A i \in 1..Len(visited) : visited[i].page = i /\ i <= pages_num
  /\ \A i \in 1..(Len(visited) - 1) : visited[i].n_adds >= 1
  /\ pc = "search_loop"
       => /\ pages_num = Len(listing)
          /\ pag_num = Len(visited) + 1
          /\ visited # <<>> => LastVisited.n_adds >= 1
  /\ (ran_search /\ ~InSearch /\ result # "error")
       => /\ visited # <<>>
          /\ LastVisited.n_adds = 0 \/ Len(visited) = pages_num

\* C3's case: the listing {A,B}, {A,C}, {A,B} and a page 4, crawled from an
\* empty store: 2 inserts, 1 insert, 0 inserts, and the run is over.
C3_Witness ==
  /\ Len(listing) = 4
  /\ ~InSearch
  /\ visited = << [page |-> 1, n_adds |-> 2], [page |-> 2, n_adds |-> 1],
                  [page |-> 3, n_adds |-> 0] >>

\* C4: once a perform_search has returned on this store, no step of a later
\* perform_search changes the store (the listing is the same throughout).
C4_SecondDiscoveryAddsNothing ==
  [][(n_completed >= 1 /\ InSearch) => db' = db]_vars

\* C4's case: a second perform_search has returned, on a store the first one
\* filled.
C4_Witness ==
  /\ n_completed >= 2
  /\ pc = "idle"
  /\ result = "ok"
  /\ Len(db) >= 2
  /\ visited # <<>>

\* C5: a step that crawls a page keeps every document of the store as it is,
\* and each document it adds is {URL, needs_details = True} for an identity
\* of the page that the store did not hold.
C5_DiscoverPageFrame ==
  [][InPage
       => /\ Len(db') >= Len(db)
          /\ \A i \in 1..Len(db) : db'[i] = db[i]
          /\ \A j \in (Len(db) + 1)..Len(db') :
               /\ DOMAIN db'[j] = {"URL", "needs_details"}
               /\ db'[j]["needs_details"] = TRUE
               /\ db'[j]["URL"] \notin URLs(db)
               /\ db'[j]["URL"] \in PageIdentities(listing[pag_num])]_vars

\* C5's case: the page just crawled listed a completed document, which was
\* skipped, and an unseen item, which was inserted.
C5_Witness ==
  /\ visited # <<>>
  /\ pc = "search_loop"
  /\ LastVisited.n_adds >= 1
  /\ \E i \in 1..Len(db) :
       /\ db[i]["needs_details"] = FALSE
       /\ "title" \in DOMAIN db[i]
       /\ db[i]["URL"] \in PageIdentities(listing[LastVisited.page])

\* the step about to be taken is an iteration of fetch_details' loop
FetchTurn == pc = "fetch_loop" /\ car_idx <= Len(cars_to_update)

\* the latest iteration of fetch_details' loop got its detail page
Fetched == lastFetch # <<>> /\ lastFetch[1].loaded

\* ... and wrote the document back
FetchedAndWrote == Fetched /\ Len(written) = lastFetch[1].idx

LastPage == lastFetch[1].page

LastDoc == db[lastFetch[1].doc_id]

LastRaw == info_pairs_raw(LastPage.features)

\* the panel gives the label a value, and the label's parser rejects it
FailsNormalization(raw, label) ==
  label \in DOMAIN raw /\ normalize(label, raw[label]) = None

MissingRequired(pg) == "title" \notin pg.present \/ "price" \notin pg.present

MissingOptional(pg) == "subtitle" \notin pg.present \/ "fairness" \notin pg.present

C7_MissingRequiredWritesNothing ==
  [][(FetchTurn /\ lastFetch'[1].loaded /\ MissingRequired(lastFetch'[1].page))
       => /\ pc' = "idle"
          /\ result' = "error"
          /\ db' = db
          /\ db'[lastFetch'[1].doc_id]["needs_details"] = TRUE]_vars

\* C7's case: a detail fetch has failed on a page without a price block (its
\* other elements present), and one on a page without a title could too.
C7_Witness ==
  /\ Fetched
  /\ LastPage.present = AllElements \ {"price"}
  /\ pc = "idle"
  /\ result = "error"
  /\ LastDoc["needs_details"] = TRUE
  /\ DOMAIN LastDoc = {"URL", "needs_details"}
  /\ \E pg \in DetailPages : "title" \notin pg.present

\* C8 as claimed: an iteration whose detail page has the title and the price
\* block but lacks the subtitle or the price-fairness label does not fail: it
\* writes the document with needs_details false and the missing field empty.
C8_MissingOptionalIsNotFatal ==
  [][(FetchTurn /\ lastFetch'[1].loaded /\ ~MissingRequired(lastFetch'[1].page)
        /\ MissingOptional(lastFetch'[1].page))
       => /\ result' # "error"
          /\ db'[lastFetch'[1].doc_id]["needs_details"] = FALSE
          /\ "subtitle" \notin lastFetch'[1].page.present
               => db'[lastFetch'[1].doc_id]["subtitle"] = <<>>
          /\ "fairness" \notin lastFetch'[1].page.present
               => db'[lastFetch'[1].doc_id]["price fairness"] = <<>>]_vars

SnapshotIds == {cars_to_update[k].doc_id : k \in 1..Len(cars_to_update)}

\* C9: the snapshot fetch_details takes is the pending documents of that
\* moment, each once; it stays as taken; a turn of the loop changes no document
\* but the one of the snapshot it is at, and changes it once; what has been
\* written is the start of the snapshot, in order; and when the call returns
\* normally every document of the snapshot is written once and completed.
C9_SnapshotProcessedOnce ==
  [][/\ pc = "fetch_details"
          => /\ {cars_to_update'[k].doc_id : k \in 1..Len(cars_to_update')} = Pending(db)
             /\ Len(cars_to_update') = Cardinality(Pending(db))
     /\ pc = "fetch_loop"
          => /\ cars_to_update' = cars_to_update
             /\ \A i \in 1..Len(db) :
                  db'[i] # db[i]
                    => /\ FetchTurn
                       /\ i = cars_to_update[car_idx].doc_id
                       /\ written' = Append(written, i)
             /\ written' # written => db' # db
     /\ pc' = "fetch_loop" \/ (pc = "fetch_loop" /\ pc' = "idle")
          => /\ Len(written') <= Len(cars_to_update')
             /\ \A k \in 1..Len(written') :
                  /\ written'[k] = cars_to_update'[k].doc_id
                  /\ db'[written'[k]]["needs_details"] = FALSE
             /\ \A k \in (Len(written') + 1)..Len(cars_to_update') :
                  db'[cars_to_update'[k].doc_id]["needs_details"] = TRUE
             /\ result' = "ok" => Len(written') = Len(cars_to_update')]_vars

\* C9's case: a fetch_details call has returned normally after writing two
\* documents, on a store that held a completed document it did not visit.
C9_Witness ==
  /\ pc = "idle"
  /\ result = "ok"
  /\ ran_details
  /\ Len(written) >= 2
  /\ \E i \in 1..Len(db) : i \notin SnapshotIds

\* C10: in a cli_update call, a phase that is skipped is never entered, and a
\* call that returns normally has entered each phase that is not skipped; with
\* the search skipped no document is inserted, with the details skipped no
\* document is changed; documents are inserted only by the search and before
\* the details are entered, the search changes no document it finds, and the
\* details insert none.
C10_PhasesRunAsAsked ==
  [][/\ caller' = "cli_update"
          => /\ ran_search' => ~skip_search'
             /\ ran_details' => ~skip_details'
             /\ (pc' = "idle" /\ result' = "ok")
                  => /\ ran_search' <=> ~skip_search'
                     /\ ran_details' <=> ~skip_details'
     /\ (caller = "cli_update" /\ pc # "idle")
          => /\ skip_search => Len(db') = Len(db)
             /\ skip_details => \A i \in 1..Len(db) : db'[i] = db[i]
             /\ Len(db') # Len(db) => InSearch /\ ~ran_details
             /\ InSearch => \A i \in 1..Len(db) : db'[i] = db[i]
             /\ InDetails => Len(db') = Len(db)
             /\ (ran_details' /\ ~ran_details) => (ran_search <=> ~skip_search)]_vars

\* C10's case: a cli_update call that skipped nothing has returned normally
\* after inserting documents and then completing one.
C10_Witness ==
  /\ caller = "cli_update"
  /\ pc = "idle"
  /\ result = "ok"
  /\ ~skip_search
  /\ ~skip_details
  /\ visited # <<>>
  /\ visited[1].n_adds >= 1
  /\ written # <<>>


\* every page of the listing names an item that no earlier page names
EveryPageNew(pages) ==
  \A p \in 1..Len(pages) :
    \E h \in PageIdentities(pages[p]) :
      \A q \in 1..(p - 1) : h \notin PageIdentities(pages[q])

\* C11: when every page of the listing names an item of its own and a
\* perform_search was aborted after it had crawled a page, the next
\* perform_search that returns leaves in the store every item the aborted run
\* would have inserted had nothing failed.
C11_RerunCompletesDiscovery ==
  [][(EveryPageNew(listing) /\ InSearch /\ n_completed' = n_completed + 1)
       => owed \subseteq URLs(db')]_vars

\* the documents fetch_details has got to when its loop stands at car_idx: the
\* ones it wrote and the one at car_idx, if there is one
Attempted ==
  {cars_to_update[k].doc_id :
     k \in {j \in 1..Len(cars_to_update) : j <= car_idx}}

\* C12: the step that ends a fetch_details has got to every document that the
\* fetch_details before it, which ended in an error, left pending.
C12_PendingRetriedOnRerun ==
  [][(pc = "fetch_loop" /\ pc' = "idle") => left_pending \subseteq Attempted]_vars

\* a price field: the parsed integer, or None
IsPriceValue(v) == v = None \/ (Len(v) = 2 /\ v[1] = "int" /\ v[2] \in Nat)

\* C13: in every step, (a) each document that is completed afterwards has a
\* title and a price, the price an integer or None; (b) a document the step
\* completes is the one fetch_details has just fetched, and its title and
\* price are that page's title and parsed price; (c) a fetch of a page that
\* has its title, price and price-rating elements, whose price text does not
\* parse, does not end the call and writes the document as completed with
\* price None.
C13_CompletedHasTitleAndPrice ==
  [][/\ \A i \in 1..Len(db') :
          db'[i]["needs_details"] = FALSE
            => /\ {"title", "price"} \subseteq DOMAIN db'[i]
               /\ IsPriceValue(db'[i]["price"])
     /\ \A i \in 1..Len(db) :
          (db[i]["needs_details"] = TRUE /\ db'[i]["needs_details"] = FALSE)
            => /\ FetchTurn
               /\ lastFetch'[1].loaded
               /\ lastFetch'[1].doc_id = i
               /\ db'[i]["title"] = lastFetch'[1].page.title
               /\ db'[i]["price"] = _parse_price_eur(lastFetch'[1].page.price)
     /\ (/\ FetchTurn
         /\ lastFetch' # lastFetch
         /\ lastFetch'[1].loaded
         /\ {"title", "price", "fairness"} \subseteq lastFetch'[1].page.present
         /\ _parse_price_eur(lastFetch'[1].page.price) = None)
          => /\ pc' = "fetch_loop"
             /\ result' = result
             /\ db'[lastFetch'[1].doc_id]["needs_details"] = FALSE
             /\ db'[lastFetch'[1].doc_id]["price"] = None]_vars

\* C13's case: the page fetch_details has just written gave a price text that
\* does not parse ("49.54 EUR"), and the document is completed with price None.
C13_Witness ==
  /\ FetchedAndWrote
  /\ LastPage.price = T_4954eur
  /\ _parse_price_eur(LastPage.price) = None
  /\ LastDoc["needs_details"] = FALSE
  /\ LastDoc["price"] = None
  /\ LastDoc["title"] = T_title

\* the function that parses numbers with the unit
ParserOf(unit) ==
  CASE unit = U_eur -> "_parse_price_eur"
    [] unit = U_km -> "_parse_km"
    [] unit = U_kW -> "_parse_kw"
    [] unit = U_min -> "_parse_minutes"
    [] OTHER -> "none"

\* one to three digits, then groups of exactly three digits, separated by "."
WellGrouped(groups, seps) ==
  /\ Len(groups) >= 1
  /\ Len(groups[1]) \in 1..3
  /\ \A k \in 2..Len(groups) : Len(groups[k]) = 3
  /\ \A k \in 1..Len(seps) : seps[k] = "."

\* the integer the digits of the groups spell, one after the other
RECURSIVE Concatenated(_)
Concatenated(groups) ==
  IF groups = <<>> THEN 0
  ELSE LET last == groups[Len(groups)]
           shift == CASE Len(last) = 1 -> 10 [] Len(last) = 2 -> 100 [] Len(last) = 3 -> 1000
       IN  Concatenated(SubSeq(groups, 1, Len(groups) - 1)) * shift + IntOf(last)

\* C14: _parse_price_eur, _parse_km, _parse_kw and _parse_minutes, given
\* "<token> <unit>" with their own unit, return the integer spelled by the
\* groups of the token when the token is one to three digits followed by
\* "."-separated groups of exactly three digits, and None for every other
\* token (an empty, short or long group, a leading or trailing dot, a comma).
C14_GroupingDecides ==
  (sample.family = "token" /\ outcome.fn = ParserOf(sample.unit))
    => outcome.value = IF WellGrouped(sample.groups, sample.seps)
                       THEN Some(Concatenated(sample.groups))
                       ELSE None

\* C14's case: _parse_minutes has returned 12000123 for "12.000.123 min".
C14_Witness ==
  /\ sample.family = "token"
  /\ sample.groups = << <<"1", "2">>, <<"0", "0", "0">>, <<"1", "2", "3">> >>
  /\ sample.seps = <<".", ".">>
  /\ outcome.fn = "_parse_minutes"
  /\ outcome.fn = ParserOf(sample.unit)
  /\ outcome.value = Some(12000123)

\* the unit of each parser; _parse_int has none
CanonUnit(fn) ==
  CASE fn = "_parse_price_eur" -> U_eur
    [] fn = "_parse_km" -> U_km
    [] fn = "_parse_kw" -> U_kW
    [] fn = "_parse_minutes" -> U_min
    [] OTHER -> <<>>

LowerText(s) == [i \in 1..Len(s) |-> Lower(s[i])]

\* "(", text without a ")", and the closing ")"
Parenthetical(t) ==
  /\ Len(t) >= 2
  /\ t[1] = "(" /\ t[Len(t)] = ")"
  /\ \A i \in 2..(Len(t) - 1) : t[i] # ")"

\* what may follow the unit (the digits, for _parse_int): whitespace around
\* nothing, around one "." for _parse_minutes, around one parenthetical for
\* _parse_kw
AllowedAfter(fn, post) ==
  \/ AllIn(post, Whitespace)
  \/ fn = "_parse_minutes" /\ post[1] = "." /\ AllIn(Tail(post), Whitespace)
  \/ fn = "_parse_kw" /\ Parenthetical(Strip(post))

\* the text strays from the whole-string grammar of the parser
Deviates(fn, smp) ==
  \/ ~AllIn(smp.pre, Whitespace)
  \/ LowerText(smp.unit) # LowerText(CanonUnit(fn))
  \/ CanonUnit(fn) # <<>> /\ smp.gap = <<>>
  \/ IF CanonUnit(fn) # <<>> THEN ~AllowedAfter(fn, smp.post)
                             ELSE ~AllowedAfter(fn, smp.gap \o smp.post)

Parsers == {"_parse_price_eur", "_parse_km", "_parse_kw", "_parse_minutes", "_parse_int"}

\* C15: a parser returns None for every text that has anything but whitespace
\* before the number, another unit than its own or none, no space between the
\* number and the unit, or anything after the unit but whitespace, the one "."
\* of "min." and the one parenthetical of "kW (...)" (for _parse_int: anything
\* after the digits but whitespace).
C15_WholeInputMatched ==
  (sample.family = "frame" /\ outcome.fn \in Parsers /\ Deviates(outcome.fn, sample))
    => outcome.value = None

RECURSIVE Pow10(_)
Pow10(k) == IF k = 0 THEN 1 ELSE 10 * Pow10(k - 1)

\* the number a digit string writes in base ten
RECURSIVE Decimal(_)
Decimal(ds) ==
  IF ds = <<>> THEN 0 ELSE DigitVal(Head(ds)) * Pow10(Len(ds) - 1) + Decimal(Tail(ds))

\* "0", or digits that do not start with "0"
IsCount(core) ==
  /\ core # <<>>
  /\ AllIn(core, Digits)
  /\ core = <<"0">> \/ core[1] # "0"

\* C16: _parse_int returns the integer a text writes when the text, without
\* the whitespace around it, is "0" or a digit string that does not start
\* with "0", and None for every other text: the empty one, "01", "00", and
\* any with a ".", a letter, a sign or whitespace between the digits.
C16_CountDecides ==
  (sample.family = "count" /\ outcome.fn = "_parse_int")
    => outcome.value = IF IsCount(Strip(TextOf(sample)))
                       THEN Some(Decimal(Strip(TextOf(sample))))
                       ELSE None

\* C16's case: _parse_int has returned 10 for " 10 ".
C16_Witness ==
  /\ sample.family = "count"
  /\ TextOf(sample) = <<" ", "1", "0", " ">>
  /\ outcome.fn = "_parse_int"
  /\ outcome.value = Some(10)

\* the part of a link before its first "&": all of it when it has none
BeforeFirstAmp(url) ==
  LET k == CHOOSE n \in 0..Len(url) :
             /\ \A i \in 1..n : url[i] # "&"
             /\ n = Len(url) \/ url[n + 1] = "&"
  IN  SubSeq(url, 1, k)

\* C17: the identity __clean_car_url returns for a link is the part of the
\* link before its first "&"; it has no "&"; cleaning it again gives it back;
\* and every link with the same part before its first "&" gets the same
\* identity.
C17_IdentityIsPrefixBeforeAmp ==
  (sample.family = "url" /\ outcome.fn = "__clean_car_url")
    => /\ outcome.value = BeforeFirstAmp(TextOf(sample))
       /\ "&" \notin Range_of(outcome.value)
       /\ __clean_car_url(outcome.value) = outcome.value
       /\ \A other \in UrlTexts :
            BeforeFirstAmp(other) = BeforeFirstAmp(TextOf(sample))
              => __clean_car_url(other) = outcome.value

\* C17's case: __clean_car_url has returned "a" for "a&b&", a link with two
\* "&", and another link, "a&a", has the same part before its first "&".
C17_Witness ==
  /\ sample.family = "url"
  /\ TextOf(sample) = <<"a", "&", "b", "&">>
  /\ outcome.fn = "__clean_car_url"
  /\ outcome.value = <<"a">>
  /\ <<"a", "&", "a">> \in UrlTexts
  /\ BeforeFirstAmp(<<"a", "&", "a">>) = <<"a">>

\* C18: no step of fetch_details changes the number of documents or the URL
\* of one; a step that changes the store changes the one document the loop is
\* at; and every document of the snapshot still has the URL it was taken with.
C18_DetailsKeepRecordsAndIdentities ==
  [][InDetails
       => /\ Len(db') = Len(db)
          /\ \A i \in 1..Len(db) : db'[i]["URL"] = db[i]["URL"]
          /\ db' # db
               => /\ FetchTurn
                  /\ \A i \in 1..Len(db) :
                       i # cars_to_update[car_idx].doc_id => db'[i] = db[i]
          /\ \A k \in 1..Len(cars_to_update') :
               db'[cars_to_update'[k].doc_id]["URL"] = cars_to_update'[k].doc["URL"]]_vars

\* C18's case: fetch_details has just written a document back, in a store of
\* three, where another document is completed and a third is pending.
C18_Witness ==
  /\ pc = "fetch_loop"
  /\ FetchedAndWrote
  /\ Len(db) >= 3
  /\ \E i, j \in 1..Len(db) :
       /\ i # lastFetch[1].doc_id /\ j # lastFetch[1].doc_id
       /\ db[i]["needs_details"] = FALSE
       /\ db[j]["needs_details"] = TRUE

\* the turn of fetch_details' loop taken in this step did not get its page, or
\* got one without the title, the price or the price rating
FetchFails ==
  /\ FetchTurn
  /\ lastFetch'[1].idx = car_idx
  /\ \/ ~lastFetch'[1].loaded
     \/ ~({"title", "price", "fairness"} \subseteq lastFetch'[1].page.present)

\* C19: a turn of fetch_details' loop whose fetch fails ends the call with the
\* error and leaves the store as it is: the documents of the snapshot before
\* it are completed and were written once each, and the failing one and the
\* ones after it are the documents the snapshot holds, pending.
C19_FailureStopsDetails ==
  [][FetchFails
       => /\ pc' = "idle" /\ result' = "error"
          /\ db' = db
          /\ written' = [k \in 1..(car_idx - 1) |-> cars_to_update[k].doc_id]
          /\ \A k \in 1..(car_idx - 1) :
               db'[cars_to_update[k].doc_id]["needs_details"] = FALSE
          /\ \A k \in car_idx..Len(cars_to_update) :
               /\ db'[cars_to_update[k].doc_id] = cars_to_update[k].doc
               /\ db'[cars_to_update[k].doc_id]["needs_details"] = TRUE
               /\ DOMAIN db'[cars_to_update[k].doc_id] = {"URL", "needs_details"}]_vars

\* C19's case: a fetch_details call over a snapshot of three has ended in an
\* error at the second, whose page came without its price; the first is
\* completed and the third is pending.
C19_Witness ==
  /\ pc = "idle"
  /\ result = "error"
  /\ ran_details
  /\ Len(cars_to_update) = 3
  /\ Fetched
  /\ lastFetch[1].idx = 2
  /\ "price" \notin LastPage.present
  /\ written = <<cars_to_update[1].doc_id>>
  /\ db[cars_to_update[1].doc_id]["needs_details"] = FALSE
  /\ db[cars_to_update[3].doc_id]["needs_details"] = TRUE

\* the step crawls a page to its end
CrawlsPage == (pc = "page" /\ result' = "ok") \/ (pc = "search_loop" /\ visited' # visited)

\* C20: a step that crawls page p leaves every identity of the page in the
\* store and inserts as many documents as the page has distinct identities
\* that the store did not hold (the n_adds of the page); and the identities of
\* every page a perform_search has crawled are in the store, also when it
\* returns.
C20_CrawledIdentitiesStored ==
  [][/\ CrawlsPage
          => /\ PageIdentities(listing[pag_num]) \subseteq URLs(db')
             /\ Len(db') - Len(db)
                  = Cardinality(PageIdentities(listing[pag_num]) \ URLs(db))
             /\ visited' # visited
                  => /\ visited'[Len(visited')].page = pag_num
                     /\ visited'[Len(visited')].n_adds = Len(db') - Len(db)
     /\ \A k \in 1..Len(visited') :
          PageIdentities(listing[visited'[k].page]) \subseteq URLs(db')]_vars

\* C20's case: a perform_search has returned after three pages; its last page
\* named two items, one of them new.
C20_Witness ==
  /\ pc = "idle"
  /\ result = "ok"
  /\ n_completed >= 1
  /\ Len(visited) = 3
  /\ LastVisited.n_adds = 1
  /\ Cardinality(PageIdentities(listing[LastVisited.page])) = 2
  /\ UNION {PageIdentities(listing[visited[k].page]) : k \in 1..3} \subseteq URLs(db)

==============================================================================
